---------------------------- MODULE Spec2Model ----------------------------
(***************************************************************************)
(* Model of SafeMem (crates/ark-circom/src/memory.rs): the bump allocator  *)
(* kept in the first word of a WASM linear memory and the short/long       *)
(* encoding of field elements in 40-byte slots.                            *)
(*                                                                         *)
(* TLC integers are 32-bit signed, so a u32, a BigUint and the magnitude   *)
(* of a BigInt are modelled as what they are in memory: little-endian      *)
(* sequences of bytes without trailing zero bytes (the empty sequence is   *)
(* 0).  Arithmetic is done digit by digit in base 256.  A usize offset     *)
(* that the host passes to an accessor is a small TLC integer.             *)
(***************************************************************************)
EXTENDS Integers, Sequences, FiniteSets, TLC

(***************************************************************************)
(* Bounds of the model.                                                    *)
(***************************************************************************)
\* Size in bytes of the linear memory (a real page is 65536 bytes).
MemSize == 136
\* Largest number of calls the host makes in one run.
MaxCalls == 5

(***************************************************************************)
(* Magnitudes: BigUint / u32 as little-endian base-256 digit sequences.    *)
(***************************************************************************)
Max(a, b) == IF a >= b THEN a ELSE b

RECURSIVE Trim(_)
Trim(s) ==
    IF s = <<>> THEN s
    ELSE IF s[Len(s)] = 0 THEN Trim(SubSeq(s, 1, Len(s) - 1))
    ELSE s

Digit(a, i) == IF i <= Len(a) THEN a[i] ELSE 0

RECURSIVE AddFrom(_, _, _, _)
AddFrom(a, b, i, carry) ==
    IF i > Max(Len(a), Len(b))
    THEN (IF carry = 0 THEN <<>> ELSE <<carry>>)
    ELSE LET s == Digit(a, i) + Digit(b, i) + carry
         IN  <<s % 256>> \o AddFrom(a, b, i + 1, s \div 256)

AddMag(a, b) == AddFrom(a, b, 1, 0)

RECURSIVE SubFrom(_, _, _, _)
SubFrom(a, b, i, borrow) ==
    IF i > Len(a) THEN <<>>
    ELSE LET d == Digit(a, i) - Digit(b, i) - borrow
         IN  IF d < 0
             THEN <<d + 256>> \o SubFrom(a, b, i + 1, 1)
             ELSE <<d>> \o SubFrom(a, b, i + 1, 0)

\* a - b for a >= b
SubMag(a, b) == Trim(SubFrom(a, b, 1, 0))

RECURSIVE CmpFrom(_, _, _)
CmpFrom(a, b, i) ==
    IF i = 0 THEN 0
    ELSE IF a[i] < b[i] THEN -1
    ELSE IF a[i] > b[i] THEN 1
    ELSE CmpFrom(a, b, i - 1)

\* -1, 0, 1 as a < b, a = b, a > b
CmpMag(a, b) ==
    IF Len(a) < Len(b) THEN -1
    ELSE IF Len(a) > Len(b) THEN 1
    ELSE CmpFrom(a, b, Len(a))

\* A small natural number as a magnitude.
RECURSIVE MagOf(_)
MagOf(n) == IF n = 0 THEN <<>> ELSE <<n % 256>> \o MagOf(n \div 256)

\* A magnitude below 2^24 as a TLC integer.
RECURSIVE IntOfFrom(_, _)
IntOfFrom(a, i) == IF i > Len(a) THEN 0 ELSE a[i] + 256 * IntOfFrom(a, i + 1)

IntOf(a) == IntOfFrom(a, 1)

FitsInt(a) == Len(a) <= 3

\* n bytes of a magnitude, zero padded (to_le_bytes of a fixed-width integer).
BytesLE(a, n) == [i \in 1..n |-> Digit(a, i)]


(***************************************************************************)
(* num_bigint::BigInt: a sign and a magnitude.                             *)
(***************************************************************************)
Zero == [sign |-> "NoSign", mag |-> <<>>]

\* Mutant of from_biguint: the sign NoSign keeps the magnitude (as Plus).
from_biguint_keeps_data(sign, data) ==
    IF data = <<>> THEN Zero
    ELSE [sign |-> IF sign = "NoSign" THEN "Plus" ELSE sign, mag |-> data]

\* BigInt::from_biguint: the sign NoSign makes the value zero whatever the
\* magnitude, and a zero magnitude makes the sign NoSign.
from_biguint(sign, data) ==
    IF sign = "NoSign" \/ data = <<>> THEN Zero
    ELSE [sign |-> sign, mag |-> data]

Pos(mag) == from_biguint("Plus", mag)
Neg(mag) == from_biguint("Minus", mag)

Negate(x) ==
    IF x.sign = "Plus" THEN [sign |-> "Minus", mag |-> x.mag]
    ELSE IF x.sign = "Minus" THEN [sign |-> "Plus", mag |-> x.mag]
    ELSE x

BigAdd(x, y) ==
    IF x.sign = "NoSign" THEN y
    ELSE IF y.sign = "NoSign" THEN x
    ELSE IF x.sign = y.sign THEN [sign |-> x.sign, mag |-> AddMag(x.mag, y.mag)]
    ELSE LET c == CmpMag(x.mag, y.mag)
         IN  IF c = 0 THEN Zero
             ELSE IF c = 1 THEN [sign |-> x.sign, mag |-> SubMag(x.mag, y.mag)]
             ELSE [sign |-> y.sign, mag |-> SubMag(y.mag, x.mag)]

BigSub(x, y) == BigAdd(x, Negate(y))

SignRank(x) == IF x.sign = "Minus" THEN -1 ELSE IF x.sign = "Plus" THEN 1 ELSE 0

BigCmp(x, y) ==
    IF SignRank(x) < SignRank(y) THEN -1
    ELSE IF SignRank(x) > SignRank(y) THEN 1
    ELSE IF x.sign = "Plus" THEN CmpMag(x.mag, y.mag)
    ELSE IF x.sign = "Minus" THEN CmpMag(y.mag, x.mag)
    ELSE 0

BigLt(x, y) == BigCmp(x, y) = -1
BigGt(x, y) == BigCmp(x, y) = 1
BigGe(x, y) == BigCmp(x, y) >= 0
BigLe(x, y) == BigCmp(x, y) <= 0

\* 2^31, 2^32 and 2^256 as magnitudes.
Two31 == <<0, 0, 0, 128>>
Two32 == <<0, 0, 0, 0, 1>>
Two256 == [i \in 1..33 |-> IF i = 33 THEN 1 ELSE 0]
U32Max == <<255, 255, 255, 255>>

\* ToPrimitive::to_i32: None unless -2^31 <= x <= 2^31 - 1.
to_i32(x) ==
    IF BigGe(x, Neg(Two31)) /\ BigLt(x, Pos(Two31))
    THEN [some |-> TRUE, val |-> x]
    ELSE [some |-> FALSE, val |-> Zero]

\* ToPrimitive::to_u32: None unless 0 <= x <= 2^32 - 1.
to_u32(x) ==
    IF BigGe(x, Zero) /\ BigLt(x, Pos(Two32))
    THEN [some |-> TRUE, val |-> x.mag]
    ELSE [some |-> FALSE, val |-> <<>>]

\* `num as u32` of an i32: the two's complement bit pattern.
as_u32(x) == IF x.sign = "Minus" THEN BigAdd(x, Pos(Two32)).mag ELSE x.mag

\* u32 addition p + k. overflow_checks is the build's setting: with it (a
\* debug build) an overflowing sum panics, without it (a release build) the
\* sum wraps modulo 2^32.
u32_add(p, k, overflow_checks) ==
    LET s == AddMag(p, MagOf(k))
    IN  IF Len(s) <= 4 THEN [panic |-> FALSE, val |-> s]
        ELSE IF overflow_checks THEN [panic |-> TRUE, val |-> p]
        ELSE [panic |-> FALSE, val |-> Trim(SubSeq(s, 1, 4))]

\* word & 0x80000000 != 0
msb_set(word) == Digit(word, 4) >= 128

(***************************************************************************)
(* SafeMem::new: the fields of the codec.                                  *)
(***************************************************************************)
\* FrParameters::MODULUS, the BN254 scalar field order
\* 21888242871839275222246405745257275088548364400416034343698204186575808495617
MODULUS ==
    <<1, 0, 0, 240, 147, 245, 225, 67, 145, 112, 185, 121, 72, 232, 51, 40,
      93, 88, 129, 129, 182, 69, 80, 184, 41, 160, 49, 225, 114, 78, 100, 48>>

\* The prime the tests pass to SafeMem::new (the same number).
prime == Pos(MODULUS)

\* The word count the tests pass to SafeMem::new.
n32 == 2

short_max == Pos(Two31)

\* Mutant of short_min: the modulus is taken with the sign Plus.
short_min_from_modulus == BigSub(from_biguint("Plus", MODULUS), short_max)

short_min == BigSub(from_biguint("NoSign", MODULUS), short_max)

(***************************************************************************)
(* The linear memory: the sequence of its MemSize bytes; the byte at offset *)
(* i is mem[i + 1].                                                        *)
(* Every operation is an operator from the memory before the call to the   *)
(* outcome ("Ok", or "Panic" for a Rust panic: an out-of-range index or    *)
(* slice, a failed unwrap or expect, an overflow under overflow checks),   *)
(* the memory after the call and the value returned.  No operation has a   *)
(* path that returns Err.                                                  *)
(***************************************************************************)
Returned(m, r) == [out |-> "Ok", mem |-> m, ret |-> r]
Panicked(m) == [out |-> "Panic", mem |-> m, ret |-> Zero]

ZeroMem == [i \in 1..MemSize |-> 0]

\* buf[ptr..ptr + len] is in range
slice_ok(ptr, len) == ptr + len <= MemSize

slice(m, ptr, len) == [i \in 1..len |-> m[ptr + i]]

copy_from_slice(m, ptr, bytes) ==
    [i \in 1..Len(m) |->
        IF ptr < i /\ i <= ptr + Len(bytes) THEN bytes[i - ptr] ELSE m[i]]

\* MemoryView<u32> indexing: element idx is the word at byte 4 * idx.
view_get(m, idx) ==
    IF idx >= MemSize \div 4 THEN Panicked(m)
    ELSE Returned(m, Pos(Trim(slice(m, 4 * idx, 4))))

write_u32(m, ptr, num) ==
    IF ~slice_ok(ptr, 4) THEN Panicked(m)
    ELSE Returned(copy_from_slice(m, ptr, BytesLE(num, 4)), Zero)

read_u32(m, ptr) ==
    IF ~slice_ok(ptr, 4) THEN Panicked(m)
    ELSE Returned(m, Pos(Trim(slice(m, ptr, 4))))

free_pos(m) == view_get(m, 0)

set_free_pos(m, ptr) == write_u32(m, 0, ptr)

alloc_u32(m, overflow_checks) ==
    LET p == free_pos(m)
        q == u32_add(p.ret.mag, 8, overflow_checks)
    IN  IF p.out = "Panic" \/ q.panic THEN Panicked(m)
        ELSE LET w == set_free_pos(m, q.val)
             IN  IF w.out = "Panic" THEN w ELSE Returned(w.mem, p.ret)

alloc_fr(m, overflow_checks) ==
    LET local_n32 == 8
        p == free_pos(m)
        q1 == u32_add(p.ret.mag, local_n32 * 4, overflow_checks)
        q2 == u32_add(q1.val, 8, overflow_checks)
    IN  IF p.out = "Panic" \/ q1.panic \/ q2.panic THEN Panicked(m)
        ELSE LET w == set_free_pos(m, q2.val)
             IN  IF w.out = "Panic" THEN w ELSE Returned(w.mem, p.ret)

write_big(m, ptr, num) ==
    LET mag == num.mag  \* into_parts drops the sign
    IN  IF Len(mag) > 32 THEN Panicked(m)  \* BigInteger256::try_from fails
        ELSE IF ~slice_ok(ptr, 32) THEN Panicked(m)
        ELSE Returned(copy_from_slice(m, ptr, BytesLE(mag, 32)), Zero)

read_big(m, ptr, num_bytes) ==
    IF ~slice_ok(ptr, num_bytes * 32) THEN Panicked(m)
    ELSE IF num_bytes * 32 < 32 THEN Panicked(m)  \* BigInteger256::read fails
    ELSE Returned(m, Pos(Trim(slice(m, ptr, 32))))

write_short_positive(m, ptr, fr) ==
    LET num == to_i32(fr)
    IN  IF ~num.some THEN Panicked(m)
        ELSE LET w1 == write_u32(m, ptr, as_u32(num.val))
             IN  IF w1.out = "Panic" THEN w1
                 ELSE write_u32(w1.mem, ptr + 4, <<>>)

\* Mutant of write_short_negative: the word is fr - short_min - short_max,
\* without the 2^32 offset.
write_short_negative_no_offset(m, ptr, fr) ==
    LET num == to_u32(BigSub(BigSub(fr, short_min), short_max))
    IN  IF ~num.some THEN Panicked(m)
        ELSE LET w1 == write_u32(m, ptr, num.val)
             IN  IF w1.out = "Panic" THEN w1
                 ELSE write_u32(w1.mem, ptr + 4, <<>>)

write_short_negative(m, ptr, fr) ==
    LET num1 == BigSub(fr, short_min)
        num2 == BigSub(num1, short_max)
        num3 == BigAdd(num2, Pos(Two32))
        num == to_u32(num3)
    IN  IF ~num.some THEN Panicked(m)
        ELSE LET w1 == write_u32(m, ptr, num.val)
             IN  IF w1.out = "Panic" THEN w1
                 ELSE write_u32(w1.mem, ptr + 4, <<>>)

write_long_normal(m, ptr, fr) ==
    LET w1 == write_u32(m, ptr, <<>>)
    IN  IF w1.out = "Panic" THEN w1
        ELSE LET w2 == write_u32(w1.mem, ptr + 4, Two31)  \* i32::MIN as u32
             IN  IF w2.out = "Panic" THEN w2
                 ELSE write_big(w2.mem, ptr + 8, fr)

\* Mutant of is_short: both bounds inclusive.
is_short_inclusive(fr) == BigLe(fr, short_max) /\ BigGe(fr, short_min)

is_short(fr) == BigLt(fr, short_max) /\ BigGt(fr, short_min)

write_fr(m, ptr, fr) ==
    IF is_short(fr)
    THEN IF BigGe(fr, Zero)
         THEN write_short_positive(m, ptr, fr)
         ELSE write_short_negative(m, ptr, fr)
    ELSE write_long_normal(m, ptr, fr)

\* Mutant of read_fr: the short form is returned without the sign adjustment.
read_fr_unsigned(m, ptr) ==
    LET h == view_get(m, ptr + 1)
    IN  IF h.out = "Panic" THEN h
        ELSE IF msb_set(h.ret.mag)
        THEN read_big(m, ptr + 8, n32)
        ELSE read_big(m, ptr, 4)

read_fr(m, ptr) ==
    LET h == view_get(m, ptr + 1)
    IN  IF h.out = "Panic" THEN h
        ELSE IF msb_set(h.ret.mag)
        THEN read_big(m, ptr + 8, n32)
        ELSE LET res == read_big(m, ptr, 4)
                 l == view_get(m, ptr)
             IN  IF res.out = "Panic" \/ l.out = "Panic" THEN Panicked(m)
                 ELSE IF msb_set(l.ret.mag)
                 THEN Returned(m, BigSub(res.ret, Pos(Two32)))
                 ELSE res

(***************************************************************************)
(* The state: the memory, the slots the allocator has returned (in call    *)
(* order), a record of the most recent call and the number of calls made.  *)
(***************************************************************************)
VARIABLES mem, slots, last, calls

vars == <<mem, slots, last, calls>>

\* The FreePointer word: the little-endian u32 in bytes 0..3.
FreePointer(m) == Trim(slice(m, 0, 4))

IsZeroMem(m) == \A i \in DOMAIN m : m[i] = 0

\* The record of a call: its name and arguments, its outcome and return
\* value, the FreePointer word and whether the memory was all zero before it,
\* and, when the call before it was a write_fr that returned, that call's
\* arguments (wrote, wptr, wval) and whether it wrote to an all-zero memory.
Call(op, ptr, val, r) ==
    [op |-> op, ptr |-> ptr, val |-> val, out |-> r.out, ret |-> r.ret,
     fp0 |-> FreePointer(mem), fresh |-> IsZeroMem(mem),
     wrote |-> last.op = "write_fr" /\ last.out = "Ok",
     wptr |-> IF last.op = "write_fr" THEN last.ptr ELSE -1,
     wval |-> IF last.op = "write_fr" THEN last.val ELSE Zero,
     wfresh |-> last.op = "write_fr" /\ last.fresh]

NoCall ==
    [op |-> "new", ptr |-> -1, val |-> Zero, out |-> "Ok", ret |-> Zero,
     fp0 |-> <<>>, fresh |-> FALSE, wrote |-> FALSE, wptr |-> -1,
     wval |-> Zero, wfresh |-> FALSE]

\* Values the host encodes.
Fr1M == Pos(MagOf(1000000))
FrMinus1M == Neg(MagOf(1000000))
Fr500G == Pos(<<0, 136, 82, 106, 116>>)        \* 500000000000
FrMinus500G == Neg(<<0, 136, 82, 106, 116>>)   \* -500000000000

HostValues == {Fr1M, FrMinus1M, Fr500G}

CodecValues ==
    {Zero, Pos(MagOf(1)), Fr1M, BigSub(short_max, Pos(MagOf(1))), short_max,
     Fr500G, BigSub(prime, Pos(MagOf(1))), prime, Pos(Two256),
     Neg(MagOf(1)), FrMinus1M, BigAdd(short_min, Pos(MagOf(1))), short_min,
     FrMinus500G}

\* The initial FreePointer words: 0 (a new Memory, as the test read_write_32
\* reads it), 8 (set by the machine when it starts) and 2^32 - 8 (a machine
\* that has handed out all but the last 8 bytes of the 32-bit offset space).
InitialFreePointers == {<<>>, MagOf(8), <<248, 255, 255, 255>>}

Init ==
    /\ \E f \in InitialFreePointers : mem = copy_from_slice(ZeroMem, 0, BytesLE(f, 4))
    /\ slots = <<>>
    /\ last = NoCall
    /\ calls = 0

\* Offsets the host passes to write_fr and read_fr: the offsets of the
\* field slots the allocator returned (as usize).
HostPtrs ==
    {IntOf(slots[i].ptr) :
        i \in {j \in 1..Len(slots) : slots[j].size = 40 /\ FitsInt(slots[j].ptr)}}

\* Offsets the host passes to read_u32 and write_u32.
WordPtrs == {0, MemSize - 4, MemSize - 3}

\* A panic ends the run.
Running == last.out = "Ok" /\ calls < MaxCalls

AllocU32(overflow_checks) ==
    /\ Running
    /\ LET r == alloc_u32(mem, overflow_checks)
       IN  /\ mem' = r.mem
           /\ slots' = IF r.out = "Ok"
                       THEN Append(slots, [ptr |-> r.ret.mag, size |-> 8])
                       ELSE slots
           /\ calls' = calls + 1
           /\ last' = Call("alloc_u32", -1, Zero, r)

AllocFr(overflow_checks) ==
    /\ Running
    /\ LET r == alloc_fr(mem, overflow_checks)
       IN  /\ mem' = r.mem
           /\ slots' = IF r.out = "Ok"
                       THEN Append(slots, [ptr |-> r.ret.mag, size |-> 40])
                       ELSE slots
           /\ calls' = calls + 1
           /\ last' = Call("alloc_fr", -1, Zero, r)

WriteFr(ptr, fr) ==
    /\ Running
    /\ LET r == write_fr(mem, ptr, fr)
       IN  /\ mem' = r.mem
           /\ calls' = calls + 1
           /\ last' = Call("write_fr", ptr, fr, r)
    /\ UNCHANGED slots

ReadFr(ptr) ==
    /\ Running
    /\ LET r == read_fr(mem, ptr)
       IN  /\ mem' = r.mem
           /\ calls' = calls + 1
           /\ last' = Call("read_fr", ptr, Zero, r)
    /\ UNCHANGED slots

ReadU32(ptr) ==
    /\ Running
    /\ LET r == read_u32(mem, ptr)
       IN  /\ mem' = r.mem
           /\ calls' = calls + 1
           /\ last' = Call("read_u32", ptr, Zero, r)
    /\ UNCHANGED slots

WriteU32(ptr, num) ==
    /\ Running
    /\ LET r == write_u32(mem, ptr, num)
       IN  /\ mem' = r.mem
           /\ calls' = calls + 1
           /\ last' = Call("write_u32", ptr, Pos(num), r)
    /\ UNCHANGED slots

FreePos ==
    /\ Running
    /\ LET r == free_pos(mem)
       IN  /\ mem' = r.mem
           /\ calls' = calls + 1
           /\ last' = Call("free_pos", -1, Zero, r)
    /\ UNCHANGED slots

Next ==
    \/ \E c \in BOOLEAN : AllocU32(c)
    \/ \E c \in BOOLEAN : AllocFr(c)
    \/ \E ptr \in HostPtrs, fr \in HostValues : WriteFr(ptr, fr)
    \/ \E ptr \in HostPtrs : ReadFr(ptr)

Spec == Init /\ [][Next]_vars

\* The codec and the word accessors on a new memory, at offsets the host
\* picks itself (the tests use offset 0 without allocating).
CodecPtrs == {0}

InitCodec ==
    /\ mem = ZeroMem
    /\ slots = <<>>
    /\ last = NoCall
    /\ calls = 0

NextCodec ==
    \/ \E ptr \in CodecPtrs, fr \in CodecValues : WriteFr(ptr, fr)
    \/ \E ptr \in CodecPtrs : ReadFr(ptr)
    \/ \E ptr \in WordPtrs : ReadU32(ptr)
    \/ \E ptr \in WordPtrs : WriteU32(ptr, U32Max)
    \/ FreePos

SpecCodec == InitCodec /\ [][NextCodec]_vars

(***************************************************************************)
(* Properties.                                                             *)
(***************************************************************************)
One == Pos(MagOf(1))

\* The supported domain: short form, or long form of a canonical residue.
InShortRange(v) == BigGt(v, short_min) /\ BigLt(v, short_max)
InLongCanonical(v) == BigGe(v, short_max) /\ BigLt(v, prime)
InDomain(v) == InShortRange(v) \/ InLongCanonical(v)

\* The header words and the 32 value bytes of the slot at byte offset ptr.
SlotL(m, ptr) == Trim(slice(m, ptr, 4))
SlotH(m, ptr) == Trim(slice(m, ptr + 4, 4))
SlotValue(m, ptr) == Trim(slice(m, ptr + 8, 32))

\* The last call is read_fr(ptr) and the call before it was a write_fr(ptr, v)
\* that returned.
ReadAfterWrite(ptr) ==
    /\ last.op = "read_fr"
    /\ last.ptr = ptr
    /\ last.wrote
    /\ last.wptr = ptr

\* C1: on a zero-initialised memory, write_fr(0, v) returns and a following
\* read_fr(0) returns exactly v, for every v in the short range and every v
\* with short_max <= v < P.
C1_RoundTripAtZero ==
    /\ (last.op = "write_fr" /\ last.ptr = 0 /\ last.fresh /\ InDomain(last.val))
          => last.out = "Ok"
    /\ (ReadAfterWrite(0) /\ last.wfresh /\ InDomain(last.wval))
          => (last.out = "Ok" /\ last.ret = last.wval)

C1_Witness ==
    /\ ReadAfterWrite(0)
    /\ last.wfresh
    /\ last.wval \in {FrMinus1M, BigSub(prime, One)}
    /\ last.out = "Ok"
    /\ last.ret = last.wval

\* C2: at every slot offset the allocator returned, not only at 0, a read_fr
\* that follows a write_fr(ptr, v) of a value of the supported domain and
\* returns a value returns v.
C2_RoundTripAtSlot ==
    \A i \in 1..Len(slots) :
        (/\ slots[i].size = 40
         /\ FitsInt(slots[i].ptr)
         /\ ReadAfterWrite(IntOf(slots[i].ptr))
         /\ InDomain(last.wval)
         /\ last.out = "Ok")
            => last.ret = last.wval

\* C3: write_fr classifies with both bounds strict: short_max - 1 is written
\* short positive (L = v, H = 0), short_max long (L = 0, H = 0x80000000, the
\* value in the 32 bytes at slot offset 8), short_min + 1 short negative
\* (H = 0, top bit of L set) and short_min long.
C3_BoundaryExact ==
    (last.op = "write_fr" /\ slice_ok(last.ptr, 40)) =>
        /\ last.val = BigSub(short_max, One) =>
              /\ last.out = "Ok"
              /\ SlotL(mem, last.ptr) = last.val.mag
              /\ SlotH(mem, last.ptr) = <<>>
        /\ last.val = short_max =>
              /\ last.out = "Ok"
              /\ SlotL(mem, last.ptr) = <<>>
              /\ SlotH(mem, last.ptr) = Two31
              /\ SlotValue(mem, last.ptr) = last.val.mag
        /\ last.val = BigAdd(short_min, One) =>
              /\ last.out = "Ok"
              /\ SlotH(mem, last.ptr) = <<>>
              /\ msb_set(SlotL(mem, last.ptr))
        /\ last.val = short_min =>
              /\ last.out = "Ok"
              /\ SlotL(mem, last.ptr) = <<>>
              /\ SlotH(mem, last.ptr) = Two31

C3_Witness ==
    /\ last.op = "write_fr"
    /\ last.out = "Ok"
    /\ last.val = short_min
    /\ SlotH(mem, last.ptr) = Two31

\* C4: a negative value at or below short_min written by write_fr(0, v) to a
\* zero-initialised memory is read back by read_fr(0) as the same negative
\* value.
C4_RoundTripBigNegative ==
    (/\ ReadAfterWrite(0)
     /\ last.wfresh
     /\ BigLt(last.wval, Zero)
     /\ BigLe(last.wval, short_min))
        => (last.out = "Ok" /\ last.ret = last.wval)

IsAlloc == last.op \in {"alloc_u32", "alloc_fr"}

AllocSize == IF last.op = "alloc_u32" THEN 8 ELSE 40

Aligned4(word) == Digit(word, 1) % 4 = 0

\* The offsets the allocator has returned so far.
ReturnedOffsets == {slots[i].ptr : i \in 1..Len(slots)}

\* C5: from any FreePointer value f, alloc_u32 returns f and leaves the
\* FreePointer at f + 8, alloc_fr returns f and leaves it at f + 40; after
\* allocations only, the FreePointer is the first offset plus the sizes
\* handed out; from f = 8 two alloc_fr calls return 8 and 48.
C5_StrideAndAccounting ==
    /\ IsAlloc =>
          /\ last.out = "Ok"
          /\ last.ret.mag = last.fp0
          /\ FreePointer(mem) = AddMag(last.fp0, MagOf(AllocSize))
    /\ (calls = 2 /\ Len(slots) = 2 /\ slots[1] = [ptr |-> MagOf(8), size |-> 40]
          /\ slots[2].size = 40)
          => slots[2].ptr = MagOf(48)

\* C6: an allocation that starts from a 4-byte aligned FreePointer leaves
\* the FreePointer 4-byte aligned and not smaller than it was.
C6_AlignedMonotone ==
    (IsAlloc /\ Aligned4(last.fp0)) =>
        /\ Aligned4(FreePointer(mem))
        /\ CmpMag(FreePointer(mem), last.fp0) >= 0

\* C7: write_fr and read_fr at an offset the allocator returned leave the
\* FreePointer word as it was before the call.
C7_CodecKeepsFreePointer ==
    (/\ last.op \in {"write_fr", "read_fr"}
     /\ MagOf(last.ptr) \in ReturnedOffsets)
        => FreePointer(mem) = last.fp0

SlotEnd(s) == AddMag(s.ptr, MagOf(s.size))

Disjoint(s, t) ==
    \/ CmpMag(SlotEnd(s), t.ptr) <= 0
    \/ CmpMag(SlotEnd(t), s.ptr) <= 0

AccessLen == IF last.op \in {"read_u32", "write_u32"} THEN 4 ELSE 40

\* C9: a read_u32, write_u32, read_fr or write_fr whose byte range (4 bytes
\* of a word, 40 bytes of a field slot) is not wholly inside the buffer ends
\* in a MemoryAccessFault error returned to the caller, and one whose range
\* is wholly inside the buffer does not fault.
C9_BoundsChecked ==
    last.op \in {"read_u32", "write_u32", "read_fr", "write_fr"} =>
        IF slice_ok(last.ptr, AccessLen)
        THEN last.out = "Ok"
        ELSE last.out = "MemoryAccessFault"

\* C10: in a run of allocations, one whose slot would extend past the end
\* of the buffer fails, so every returned offset denotes a slot wholly inside
\* the buffer, and one whose slot fits does not fail.
C10_ExhaustionReported ==
    (IsAlloc /\ calls = Len(slots) /\ FitsInt(last.fp0)) =>
        (last.out = "Ok" <=> slice_ok(IntOf(last.fp0), AllocSize))

\* The last call is a write_fr(ptr, v) that returned, to a slot wholly inside
\* the buffer.
WroteSlot ==
    /\ last.op = "write_fr"
    /\ last.out = "Ok"
    /\ slice_ok(last.ptr, 40)

\* C11: short_max = 2^31 and short_min = -(2^31), so write_fr writes the
\* short form (H = 0) exactly for the values of magnitude below 2^31.
C11_ShortRangeSymmetric ==
    /\ short_max = Pos(Two31)
    /\ short_min = Neg(Two31)
    /\ WroteSlot =>
          (SlotH(mem, last.ptr) = <<>> <=> CmpMag(last.val.mag, Two31) < 0)

C11_Witness ==
    /\ WroteSlot
    /\ last.val = Neg(MagOf(1))
    /\ SlotH(mem, last.ptr) = <<>>

\* C12 as stated: SafeMem::new yields short_max = 2^31 and
\* short_min = P - short_max.
C12_ShortMinFromPrime ==
    last.op = "write_fr" =>
        /\ short_max = Pos(Two31)
        /\ short_min = BigSub(prime, short_max)

\* C12 as amended: SafeMem::new yields short_max = 2^31 and
\* short_min = 0 - short_max = -(2^31), whatever the prime, so a value v with
\* -(2^31) < v < 0 is written as the word 2^32 + v.
C12_ShortMinIsMinusShortMax ==
    last.op = "write_fr" =>
        /\ short_max = Pos(Two31)
        /\ short_min = BigSub(Zero, short_max)
        /\ (WroteSlot /\ BigLt(last.val, Zero) /\ BigGt(last.val, Neg(Two31)))
              => SlotL(mem, last.ptr) = BigAdd(last.val, Pos(Two32)).mag

C12_Witness ==
    /\ WroteSlot
    /\ last.val = FrMinus1M
    /\ SlotL(mem, last.ptr) = <<192, 189, 240, 255>>

RECURSIVE ModP(_)
\* The canonical residue of v modulo P, in [0, P).
ModP(v) ==
    IF BigLt(v, Zero) THEN ModP(BigAdd(v, prime))
    ELSE IF BigGe(v, prime) THEN ModP(BigSub(v, prime))
    ELSE v

\* C13: every v with v <= short_min or v >= short_max is written as L = 0,
\* H = 0x80000000 and the little-endian bytes of v mod P at offset 8, and
\* read_fr of that slot returns v mod P.
C13_LongStoresResidue ==
    /\ (/\ last.op = "write_fr"
        /\ slice_ok(last.ptr, 40)
        /\ ~InShortRange(last.val))
          => /\ last.out = "Ok"
             /\ SlotL(mem, last.ptr) = <<>>
             /\ SlotH(mem, last.ptr) = Two31
             /\ SlotValue(mem, last.ptr) = ModP(last.val).mag
    /\ (ReadAfterWrite(last.ptr) /\ last.wfresh /\ ~InShortRange(last.wval))
          => /\ last.out = "Ok"
             /\ last.ret = ModP(last.wval)

\* C14: for every v with short_min < v < P, write_fr to a slot inside the
\* buffer returns; a short negative v leaves a low word in [2^31, 2^32) and a
\* short non-negative v a low word below 2^31.
C14_NoEncodingOverflow ==
    (/\ last.op = "write_fr"
     /\ slice_ok(last.ptr, 40)
     /\ BigGt(last.val, short_min)
     /\ BigLt(last.val, prime))
        => /\ last.out = "Ok"
           /\ InShortRange(last.val)
                 => /\ SlotH(mem, last.ptr) = <<>>
                    /\ Len(SlotL(mem, last.ptr)) <= 4
                    /\ msb_set(SlotL(mem, last.ptr)) <=> BigLt(last.val, Zero)

C14_Witness ==
    /\ WroteSlot
    /\ last.val = BigAdd(short_min, One)
    /\ SlotL(mem, last.ptr) = <<1, 0, 0, 128>>

\* C15: the last write to a slot wins: whatever was written to the slot
\* before, read_fr after write_fr(ptr, v) returns v; the short decoding
\* depends on the low word alone, not on bytes 8..32 left by an earlier write.
C15_LastWriteWins ==
    (ReadAfterWrite(last.ptr) /\ InDomain(last.wval))
        => (last.out = "Ok" /\ last.ret = last.wval)

\* C16: with the word count n32 the codec was constructed with, alloc_fr
\* returns and advances the FreePointer by exactly n32 * 4 + 8 bytes.
C16_StrideFollowsWordCount ==
    (last.op = "alloc_fr" /\ FitsInt(last.fp0)) =>
        /\ last.out = "Ok"
        /\ FreePointer(mem) = AddMag(last.fp0, MagOf(n32 * 4 + 8))

\* C17: after a write_fr(ptr, v) that returned, read_fr(ptr) returns for
\* every ptr whose 40-byte slot lies wholly inside the buffer, up to the slot
\* that ends at the end of the buffer.
C17_ReadBackNoFault ==
    (ReadAfterWrite(last.ptr) /\ slice_ok(last.ptr, 40))
        => last.out = "Ok"

\* C18: a write_fr that fails, because its range is partly outside the
\* buffer or because the value does not fit 256 bits, leaves every byte of
\* the buffer as it was before the call.
C18_FailedWriteNoEffect ==
    [][(last'.op = "write_fr" /\ last'.out # "Ok") => mem' = mem]_vars

\* The bytes write_fr(ptr, v) may change: 8 for a short value, 40 otherwise.
WrittenLen(v) == IF InShortRange(v) THEN 8 ELSE 40

\* A step that is a write_fr(ptr, v) changes no byte outside its slot.
WriteConfined ==
    last'.op = "write_fr" =>
        \A i \in 0..(MemSize - 1) :
            (i < last'.ptr \/ i >= last'.ptr + WrittenLen(last'.val))
                => mem'[i + 1] = mem[i + 1]

\* A step that is a read changes no byte.
ReadsChangeNothing ==
    last'.op \in {"read_fr", "free_pos", "read_u32"} => mem' = mem

\* A step that is a write_fr to a field slot changes no byte of any other
\* slot the allocator has returned.
OtherSlotsKept ==
    last'.op = "write_fr" =>
        \A j \in 1..Len(slots) :
            (slots[j] # [ptr |-> MagOf(last'.ptr), size |-> 40]
                /\ FitsInt(slots[j].ptr))
                => \A i \in 0..(MemSize - 1) :
                      (i >= IntOf(slots[j].ptr)
                          /\ i < IntOf(slots[j].ptr) + slots[j].size)
                          => mem'[i + 1] = mem[i + 1]

\* C19: write_fr(ptr, v) changes no byte outside [ptr, ptr + 40), and none
\* outside [ptr, ptr + 8) for a short value; read_fr, free_pos and read_u32
\* change no byte; a write_fr to one allocated slot changes no byte of any
\* other allocated slot.
C19_WritesConfined ==
    [][WriteConfined /\ ReadsChangeNothing /\ OtherSlotsKept]_vars

=============================================================================
